---- MODULE Spec2Model ----
(***************************************************************************)
(* The browser extension of the repository as a state machine: the         *)
(* background service worker (mailbox capture, callApi orchestrator), the  *)
(* page script's click flow, the popup's token saving and daily digest     *)
(* flow, and the chrome.storage.local keys apiToken and mailboxIds they    *)
(* share.  Every await of the source is a step of its own, so the          *)
(* interleavings of the asynchronous handlers are those of the event loop. *)
(***************************************************************************)
EXTENDS Integers, Sequences, FiniteSets, TLC

\* ---------------------------------------------------------------- bounds
\* callApi messages handled by the background listener in one behaviour
MaxCalls == 2
\* webRequest.onCompleted events handled by captureMailboxId in one behaviour
MaxCaptures == 2
\* pieces a parsed text is made of
MaxChunks == 2
\* calls of the page script's parser that are counted
MaxParses == 2
\* fields of a digest object handed to jsonToSummaryHTML
MaxFields == 2

Calls == 1..MaxCalls
Captures == 1..MaxCaptures

\* ------------------------------------------------------------- JS values
\* the value of a missing property / an absent storage key
Undefined == "undefined"

\* !v for the string-or-undefined values of the model
Falsy(v) == v \in {Undefined, ""}

\* an async function's settled promise: fulfilled with a value, rejected with
\* an error carrying a message, or never settled
Return(v) == [kind |-> "return", value |-> v]
Throw(m) == [kind |-> "throw", message |-> m]
Pending == [kind |-> "pending"]

\* obj[key], undefined when the object has no such property
Field(obj, key) == IF key \in DOMAIN obj THEN obj[key] ELSE Undefined

RECURSIVE Join(_)
\* the characters (or tokens) of s as one string
Join(s) == IF s = <<>> THEN "" ELSE Head(s) \o Join(Tail(s))

Contains(s, x) == \E i \in 1..Len(s) : s[i] = x

Range(s) == {s[i] : i \in 1..Len(s)}

\* messages of the errors the host raises (their text is the host's)
StorageErrorMessage == "storage unavailable"
NetworkErrorMessage == "Failed to fetch"
SyntaxErrorMessage == "Unexpected token < in JSON at position 0"
DestructureErrorMessage == "Cannot destructure property 'mailboxIds' of 'undefined'"
NullWindowErrorMessage == "Cannot read properties of null (reading 'document')"
InOperatorErrorMessage == "Cannot use 'in' operator to search for 'title' in null"
TabErrorMessage == "Could not establish connection. Receiving end does not exist."
ExtractionErrorMessage == "TypeError: el.className is undefined"

\* ------------------------------------------------------- shared/chrome.js
\* faulty variant of storageGet: on lastError the promise is left unsettled
storageGetLosesError(lastError, res) ==
    IF lastError THEN Pending ELSE Return(res)

\* storageGet: rejects with chrome.runtime.lastError, else resolves with res
storageGet(lastError, res) ==
    IF lastError THEN Throw(StorageErrorMessage) ELSE Return(res)

\* storageSet: rejects with chrome.runtime.lastError, else resolves
storageSet(lastError) ==
    IF lastError THEN Throw(StorageErrorMessage) ELSE Return(Undefined)

VARIABLES
    apiToken,        \* chrome.storage.local key apiToken (Undefined when absent)
    mailboxIds,      \* chrome.storage.local key mailboxIds (<<>> when absent)
    firstCaptured,   \* history: the first identifier ever written to mailboxIds
    lastCaptured,    \* history: the identifier of the latest capture that wrote
    cap,             \* captureMailboxId invocations
    call,            \* callApi messages and their handling by the background
    pg,              \* the page script's click flow (callApi of content_script)
    daily,           \* the popup's daily digest flow (fetchAndShowDaily)
    show,            \* the popup's show-content flow (fetchAndDisplayMessageContent)
    mailPattern,     \* the page script's CONFIG.mailPattern object (its lastIndex)
    parseLog,        \* the latest results of the two parsers and their inputs
    rendered         \* a digest object and what jsonToSummaryHTML made of it

vars == <<apiToken, mailboxIds, firstCaptured, lastCaptured, cap, call, pg, daily,
          show, mailPattern, parseLog, rendered>>

NoId == ""

\* ------------------------------------------ background: mailbox capture
\* the literal head of CONFIG.URL_PATTERN, and a sibling resource under the
\* listener's filter https://mail.infomaniak.com/api/*
MAIL_RESOURCE_PREFIX == "https://mail.infomaniak.com/api/mail/"
OTHER_RESOURCE_PREFIX == "https://mail.infomaniak.com/api/calendar/"

\* the character class [a-f0-9-] of CONFIG.URL_PATTERN
IdChars == {"a", "b", "c", "d", "e", "f", "-",
            "0", "1", "2", "3", "4", "5", "6", "7", "8", "9"}

RECURSIVE RunLength(_, _, _)
\* the number of consecutive elements of s, from index i on, that are in class
RunLength(s, i, class) ==
    IF i > Len(s) \/ s[i] \notin class THEN 0
    ELSE 1 + RunLength(s, i + 1, class)

\* details.url.match(CONFIG.URL_PATTERN): a URL is its literal head and the
\* characters after it; the group is the run of class characters, which the
\* pattern wants non-empty and followed by "/"
URL_PATTERN_match(url) ==
    LET n == RunLength(url.rest, 1, IdChars)
    IN  IF /\ url.prefix = MAIL_RESOURCE_PREFIX
           /\ n >= 1
           /\ Len(url.rest) > n
           /\ url.rest[n + 1] = "/"
        THEN [matched |-> TRUE, group1 |-> Join(SubSeq(url.rest, 1, n))]
        ELSE [matched |-> FALSE, group1 |-> NoId]

\* the completed requests the listener is handed
ObservedUrls ==
    { [prefix |-> MAIL_RESOURCE_PREFIX, rest |-> <<"a", "1", "/", "x">>],
      [prefix |-> MAIL_RESOURCE_PREFIX, rest |-> <<"b", "2", "/">>],
      [prefix |-> MAIL_RESOURCE_PREFIX, rest |-> <<"a", "1">>],
      [prefix |-> MAIL_RESOURCE_PREFIX, rest |-> <<"a", "g", "/">>],
      [prefix |-> OTHER_RESOURCE_PREFIX, rest |-> <<"a", "1", "/">>] }

RECURSIVE Unique(_, _)
\* [...new Set(list)]: the first occurrences of list, in order, after seen
Unique(seen, list) ==
    IF list = <<>> THEN seen
    ELSE Unique(IF Contains(seen, Head(list)) THEN seen
                ELSE Append(seen, Head(list)), Tail(list))

\* faulty variants of RegistryWithId: a push without the Set, a list of the
\* new identifier alone, and the new identifier put first
RegistryPush(list, mailboxId) == Append(list, mailboxId)
RegistryOverwrite(list, mailboxId) == <<mailboxId>>
RegistryUnshift(list, mailboxId) == Unique(<<>>, <<mailboxId>> \o list)

\* const unique = new Set(mailboxIds); unique.add(mailboxId); [...unique]
RegistryWithId(list, mailboxId) == Unique(<<>>, Append(list, mailboxId))

\* faulty variant of captureMailboxIdCatch: the rejection leaves the handler
captureMailboxIdNoCatch(result) == result

\* try { ... } catch (error) { console.error(...) } around the two awaits of
\* captureMailboxId: a rejection is logged and the handler's promise resolves
captureMailboxIdCatch(result) ==
    IF result.kind = "throw" THEN Return(Undefined) ELSE result

\* settled is the promise captureMailboxId returns to the webRequest listener
IdleCapture ==
    [pc |-> "idle", url |-> [prefix |-> "", rest |-> <<>>], mailboxId |-> NoId,
     snap |-> <<>>, toWrite |-> <<>>, outcome |-> "", settled |-> Pending]

\* captureMailboxId up to its first await: the match, and the storage read
\* is started.  Invocations take the slots in order.
CaptureStart(c, url) ==
    /\ cap[c].pc = "idle"
    /\ \A d \in 1..(c - 1) : cap[d].pc # "idle"
    /\ LET match == URL_PATTERN_match(url)
       IN  cap' = [cap EXCEPT ![c] =
                IF ~match.matched
                THEN [@ EXCEPT !.pc = "done", !.url = url, !.outcome = "noMatch",
                               !.settled = Return(Undefined)]
                ELSE [@ EXCEPT !.pc = "reading", !.url = url,
                               !.mailboxId = match.group1]]
    /\ UNCHANGED <<apiToken, mailboxIds, firstCaptured, lastCaptured, call, pg, daily,
                 show, mailPattern, parseLog, rendered>>

\* the storage read completes: the list is read (default []), the identifier
\* added, and the storage write started; a failed read is logged and swallowed
CaptureStorageGet(c, lastError) ==
    /\ cap[c].pc = "reading"
    /\ LET got == storageGet(lastError, mailboxIds)
       IN  cap' = [cap EXCEPT ![c] =
                IF got.kind = "return"
                THEN [@ EXCEPT !.pc = "writing", !.snap = got.value,
                               !.toWrite = RegistryWithId(got.value,
                                                         cap[c].mailboxId)]
                ELSE [@ EXCEPT !.pc = "done", !.outcome = "readError",
                               !.settled = captureMailboxIdCatch(got)]]
    /\ UNCHANGED <<apiToken, mailboxIds, firstCaptured, lastCaptured, call, pg, daily,
                 show, mailPattern, parseLog, rendered>>

\* the storage write completes: the whole list is replaced by the one built
\* from the read; a failed write is logged and swallowed
CaptureStorageSet(c, lastError) ==
    /\ cap[c].pc = "writing"
    /\ LET put == storageSet(lastError)
       IN  IF put.kind = "return"
           THEN /\ mailboxIds' = cap[c].toWrite
                /\ firstCaptured' = IF firstCaptured = NoId THEN cap[c].mailboxId
                                    ELSE firstCaptured
                /\ lastCaptured' = cap[c].mailboxId
                /\ cap' = [cap EXCEPT ![c] = [@ EXCEPT !.pc = "done",
                                  !.outcome = "stored",
                                  !.settled = captureMailboxIdCatch(put)]]
           ELSE /\ cap' = [cap EXCEPT ![c] = [@ EXCEPT !.pc = "done",
                                  !.outcome = "writeError",
                                  !.settled = captureMailboxIdCatch(put)]]
                /\ UNCHANGED <<mailboxIds, firstCaptured, lastCaptured>>
    /\ UNCHANGED <<apiToken, call, pg, daily,
                 show, mailPattern, parseLog, rendered>>

\* capture events that do not overlap: one starts when no other is in flight
CaptureStartSeq(c, url) ==
    /\ \A d \in Captures : cap[d].pc \in {"idle", "done"}
    /\ CaptureStart(c, url)

\* ------------------------------------------------- popup: token saving
\* what the user may have typed into tokenInput, as its characters / words
TokenInputs == { <<>>, <<" ">>, <<"tokA">>, <<" ", "tokB", " ">> }

RECURSIVE TrimStart(_)
TrimStart(s) == IF s # <<>> /\ Head(s) = " " THEN TrimStart(Tail(s)) ELSE s

RECURSIVE TrimEnd(_)
TrimEnd(s) ==
    IF s # <<>> /\ s[Len(s)] = " " THEN TrimEnd(SubSeq(s, 1, Len(s) - 1)) ELSE s

\* tokenInput.value.trim()
Trim(input) == Join(TrimEnd(TrimStart(input)))

\* faulty variant of SaveApiToken: the storage area is cleared before the
\* token is written
SaveApiTokenClearing(input, lastError) ==
    /\ LET tokenValue == Trim(input)
       IN  IF Falsy(tokenValue) THEN apiToken' = apiToken /\ mailboxIds' = mailboxIds
           ELSE IF storageSet(lastError).kind = "return"
                THEN apiToken' = tokenValue /\ mailboxIds' = <<>>
                ELSE apiToken' = apiToken /\ mailboxIds' = mailboxIds
    /\ UNCHANGED <<firstCaptured, lastCaptured, cap, call, pg, daily,
                 show, mailPattern, parseLog, rendered>>

\* saveApiToken: an empty value is refused with an alert; else the token is
\* written (the alert tells whether the write succeeded)
SaveApiToken(input, lastError) ==
    /\ LET tokenValue == Trim(input)
       IN  IF Falsy(tokenValue) THEN apiToken' = apiToken
           ELSE IF storageSet(lastError).kind = "return"
                THEN apiToken' = tokenValue
                ELSE apiToken' = apiToken
    /\ UNCHANGED <<mailboxIds, firstCaptured, lastCaptured, cap, call, pg, daily,
                 show, mailPattern, parseLog, rendered>>

\* ------------------------------------- background: callApi orchestrator
API_BASE_URL == "http://localhost:8000"

\* a message without a payload property
NoPayload == [absent |-> TRUE]

\* a JS array of strings, and two values that are no array
Array(items) == [type |-> "array", items |-> items]
NotArrayString == [type |-> "string", items |-> <<>>]
NotArrayUndefined == [type |-> "undefined", items |-> <<>>]

IsArray(v) == v.type = "array"

Payload(mailboxId, folderId, threadId, context) ==
    [mailboxId |-> mailboxId, folderId |-> folderId, threadId |-> threadId,
     context |-> context]

\* the payloads an extension context may send with a message
MessagePayloads ==
    { NoPayload,
      Payload("a1", "A", "4", Array(<<"4@A">>)),
      Payload("b2", "B", "9", Array(<<>>)),
      Payload("a1", "A", Undefined, Array(<<"4@A">>)),
      Payload("", "A", "4", Array(<<"4@A">>)),
      Payload("a1", Undefined, "4", Array(<<"4@A">>)),
      Payload("a1", "A", "4", NotArrayString),
      Payload("a1", "A", "4", NotArrayUndefined) }

Messages ==
    [action : {"callApi"}, payload : MessagePayloads]
        \cup { [action |-> "extractMessageItems", payload |-> NoPayload] }

\* request.payload || {}
PayloadOrEmpty(payload) ==
    IF payload = NoPayload
    THEN Payload(Undefined, Undefined, Undefined, NotArrayUndefined)
    ELSE payload

\* faulty variant of PayloadInvalid: the threadId test is forgotten
PayloadInvalidNoThread(payload) ==
    \/ Falsy(payload.mailboxId)
    \/ Falsy(payload.folderId)
    \/ ~IsArray(payload.context)

\* !mailboxId || !folderId || !threadId || !Array.isArray(context)
PayloadInvalid(payload) ==
    \/ Falsy(payload.mailboxId)
    \/ Falsy(payload.folderId)
    \/ Falsy(payload.threadId)
    \/ ~IsArray(payload.context)

\* faulty variant of getApiToken: the token is returned without the test
getApiTokenUnchecked(got) ==
    IF got.kind # "return" THEN got ELSE Return(got.value)

\* getApiToken after its await: the read value, or the configuration error
getApiToken(got) ==
    IF got.kind # "return" THEN got
    ELSE IF Falsy(got.value) THEN Throw("API Token is not set.")
         ELSE Return(got.value)

\* faulty variant of EventSuggestionRequest: folderId and threadId change places
EventSuggestionRequestSwapped(payload, token) ==
    [method |-> "POST",
     url |-> API_BASE_URL \o "/mail/" \o payload.mailboxId
                 \o "/folder/" \o payload.threadId
                 \o "/thread/" \o payload.folderId \o "/event_suggestion",
     contentType |-> "application/json",
     authorization |-> "Bearer " \o token,
     credentials |-> "omit",
     body |-> [context_message_uid |-> payload.context]]

\* getEventSuggestion + makeAuthenticatedRequest: the request handed to fetch
EventSuggestionRequest(payload, token) ==
    [method |-> "POST",
     url |-> API_BASE_URL \o "/mail/" \o payload.mailboxId
                 \o "/folder/" \o payload.folderId
                 \o "/thread/" \o payload.threadId \o "/event_suggestion",
     contentType |-> "application/json",
     authorization |-> "Bearer " \o token,
     credentials |-> "omit",
     body |-> [context_message_uid |-> payload.context]]

\* what the backend may answer, and the bodies a 2xx answer may parse to
HttpResponses ==
    { [status |-> 200, statusText |-> "OK"],
      [status |-> 404, statusText |-> "Not Found"],
      [status |-> 500, statusText |-> "Internal Server Error"] }

NoResponse == [status |-> 0, statusText |-> ""]

EventBodies ==
    { [description |-> "Lunch on Friday", date |-> "2025-06-01",
       start_time |-> "14:00", duration |-> 30],
      [analysis |-> "No event in this thread", date |-> "tomorrow",
       start_time |-> "14:00"] }

\* response.ok
Ok(response) == response.status \in 200..299

\* faulty variant of RequireOk: the status is not looked at
RequireOkSkipped(fetched) == fetched

\* makeAuthenticatedRequest after fetch: a non-ok status is thrown
RequireOk(fetched) ==
    IF fetched.kind # "return" THEN fetched
    ELSE IF ~Ok(fetched.value)
         THEN Throw("Request failed: " \o ToString(fetched.value.status)
                        \o " " \o fetched.value.statusText)
         ELSE fetched

\* the value sendResponse gets when it is called with undefined
UndefinedResponse == [type |-> "undefined"]

\* faulty variant of processEventWorkflow: the catch logs and returns nothing
processEventWorkflowNoReturn(result) ==
    IF result.kind = "throw" THEN Return(UndefinedResponse) ELSE result

\* processEventWorkflow: a rejection of the request becomes {error: message}
processEventWorkflow(result) ==
    IF result.kind = "throw" THEN Return([error |-> result.message]) ELSE result

\* faulty variant of Settle: a request that failed is made once more
SettleRetrying(r, result) ==
    LET settled == processEventWorkflow(result)
    IN  IF result.kind = "throw" /\ Len(r.reqs) = 1
        THEN [r EXCEPT !.pc = "fetch", !.reqs = Append(@, r.reqs[1])]
        ELSE IF settled.kind = "return"
             THEN [r EXCEPT !.pc = "responded", !.resp = Append(@, settled.value)]
             ELSE [r EXCEPT !.pc = "hung"]

\* .then(sendResponse).catch(error => sendResponse({error: error.message}))
\* on the promise of processEventWorkflow: the call record once it settled
Settle(r, result) ==
    LET settled == processEventWorkflow(result)
    IN  IF settled.kind = "return"
        THEN [r EXCEPT !.pc = "responded", !.resp = Append(@, settled.value)]
        ELSE IF settled.kind = "throw"
             THEN [r EXCEPT !.pc = "responded",
                            !.resp = Append(@, [error |-> settled.message])]
             ELSE [r EXCEPT !.pc = "hung"]

NoMessage == [action |-> "", payload |-> NoPayload]

\* page is what the page script's listener did with the message
IdleCall ==
    [pc |-> "idle", sender |-> "", msg |-> NoMessage, reqs |-> <<>>,
     resp |-> <<>>, storage |-> "unread", token |-> Undefined,
     net |-> "none", http |-> NoResponse, json |-> "none", page |-> "unheard"]

\* an extension context sends a message.  Messages take the slots in order.
SendMessage(c, msg) ==
    /\ call[c].pc = "idle"
    /\ \A d \in 1..(c - 1) : call[d].pc # "idle"
    /\ call' = [call EXCEPT ![c] =
            [@ EXCEPT !.pc = "sent", !.sender = "context", !.msg = msg]]
    /\ UNCHANGED <<apiToken, mailboxIds, firstCaptured, lastCaptured, cap, pg, daily,
                 show, mailPattern, parseLog, rendered>>

\* faulty variant of Received: the invalid-payload branch does not return
ReceivedFallThrough(r) ==
    IF r.msg.action # "callApi" THEN [r EXCEPT !.pc = "declined"]
    ELSE IF PayloadInvalid(PayloadOrEmpty(r.msg.payload))
         THEN [r EXCEPT !.pc = "getToken",
                        !.resp = Append(@, [error |-> "Invalid payload"])]
         ELSE [r EXCEPT !.pc = "getToken"]

\* the onMessage listener's synchronous part, on the call record: another
\* action is declined, an invalid payload answered at once, a valid one
\* starts processEventWorkflow, which suspends in getApiToken's storage read
Received(r) ==
    IF r.msg.action # "callApi" THEN [r EXCEPT !.pc = "declined"]
    ELSE IF PayloadInvalid(PayloadOrEmpty(r.msg.payload))
         THEN [r EXCEPT !.pc = "responded",
                        !.resp = Append(@, [error |-> "Invalid payload"])]
         ELSE [r EXCEPT !.pc = "getToken"]

\* faulty variant of OwnPayload: the payload is kept in a variable of the
\* module, which holds that of the latest message the listener has run on
SharedPayload(records, c) ==
    LET heard == {d \in DOMAIN records : records[d].pc \notin {"idle", "sent"}}
        latest == CHOOSE d \in heard : \A e \in heard : e <= d
    IN  records[latest].msg.payload

\* const {mailboxId, folderId, threadId, context} = request.payload || {}: the
\* constants of the listener's invocation for message c, which the promise
\* chain of that invocation closes over
OwnPayload(records, c) == records[c].msg.payload

Listener(c) ==
    /\ call[c].pc = "sent"
    /\ call' = [call EXCEPT ![c] = Received(@)]
    /\ UNCHANGED <<apiToken, mailboxIds, firstCaptured, lastCaptured, cap, pg, daily,
                 show, mailPattern, parseLog, rendered>>

\* getApiToken's storage read completes: without a token the request fails
\* here, with one fetch is called
GetApiTokenDone(c, lastError) ==
    /\ call[c].pc = "getToken"
    /\ LET got == storageGet(lastError, apiToken)
           token == getApiToken(got)
           r == [call[c] EXCEPT
                    !.storage = IF lastError THEN "lastError" ELSE "read",
                    !.token = IF lastError THEN Undefined ELSE apiToken]
       IN  call' = [call EXCEPT ![c] =
                IF token.kind = "return"
                THEN [r EXCEPT !.pc = "fetch",
                               !.reqs = Append(@, EventSuggestionRequest(
                                            PayloadOrEmpty(OwnPayload(call, c)),
                                            token.value))]
                ELSE Settle(r, token)]
    /\ UNCHANGED <<apiToken, mailboxIds, firstCaptured, lastCaptured, cap, pg, daily,
                 show, mailPattern, parseLog, rendered>>

\* fetch settles: rejected (no connection), or resolved with a response
FetchDone(c, rejected, response) ==
    /\ call[c].pc = "fetch"
    /\ LET fetched == IF rejected THEN Throw(NetworkErrorMessage)
                      ELSE Return(response)
           checked == RequireOk(fetched)
           r == [call[c] EXCEPT
                    !.net = IF rejected THEN "rejected" ELSE "answered",
                    !.http = IF rejected THEN NoResponse ELSE response]
       IN  call' = [call EXCEPT ![c] =
                IF checked.kind = "return" THEN [r EXCEPT !.pc = "json"]
                ELSE Settle(r, checked)]
    /\ UNCHANGED <<apiToken, mailboxIds, firstCaptured, lastCaptured, cap, pg, daily,
                 show, mailPattern, parseLog, rendered>>

\* response.json() settles: the parsed body, or a SyntaxError
JsonDone(c, unparsable, body) ==
    /\ call[c].pc = "json"
    /\ LET parsed == IF unparsable THEN Throw(SyntaxErrorMessage)
                     ELSE Return(body)
           r == [call[c] EXCEPT
                    !.json = IF unparsable THEN "syntaxError" ELSE "parsed"]
       IN  call' = [call EXCEPT ![c] = Settle(r, parsed)]
    /\ UNCHANGED <<apiToken, mailboxIds, firstCaptured, lastCaptured, cap, pg, daily,
                 show, mailPattern, parseLog, rendered>>

\* ------------------------------------------------------ pattern parsing
\* The text scanned is a sequence of tokens: the literal "mail-", single
\* characters, and " " between class names.  \d is Digits, [a-zA-Z0-9-] is
\* FolderChars (the letters of "mail-" are of that class too).
Digits == {"4", "9"}
FolderChars == Digits \cup {"A", "B", "-", "mail-"}

\* one exec of /mail-(\d+)@([a-zA-Z0-9-]+)/g at index i: both groups greedy
MatchAt(s, i) ==
    LET d == RunLength(s, i + 1, Digits)
        at == i + 1 + d
        f == RunLength(s, at + 1, FolderChars)
    IN  IF /\ s[i] = "mail-"
           /\ d >= 1
           /\ at <= Len(s)
           /\ s[at] = "@"
           /\ f >= 1
        THEN [found |-> TRUE,
              threadId |-> Join(SubSeq(s, i + 1, i + d)),
              folderId |-> Join(SubSeq(s, at + 1, at + f)),
              lastIndex |-> at + f + 1]
        ELSE [found |-> FALSE, threadId |-> "", folderId |-> "", lastIndex |-> 1]

RECURSIVE ExecAll(_, _)
\* while ((match = pattern.exec(content)) !== null): the matches from index i
ExecAll(s, i) ==
    IF i > Len(s) THEN <<>>
    ELSE LET m == MatchAt(s, i)
         IN  IF m.found
             THEN <<[threadId |-> m.threadId, folderId |-> m.folderId]>>
                      \o ExecAll(s, m.lastIndex)
             ELSE ExecAll(s, i + 1)

\* faulty variant of Labels: the two groups are swapped
LabelsSwapped(threads) ==
    [i \in 1..Len(threads) |-> threads[i].folderId \o "@" \o threads[i].threadId]

\* the pushes of `${threadId}@${folderId}`, one per thread
Labels(threads) ==
    [i \in 1..Len(threads) |-> threads[i].threadId \o "@" \o threads[i].folderId]

RECURSIVE Search(_, _)
\* the first index from i on where the pattern matches, 0 when there is none
Search(s, i) ==
    IF i > Len(s) THEN 0
    ELSE IF MatchAt(s, i).found THEN i ELSE Search(s, i + 1)

\* a pattern object's state after construction, and the value exec returns
\* when nothing matches
NewPattern == [lastIndex |-> 0]
Null == [found |-> FALSE, threadId |-> "", folderId |-> ""]

\* faulty variant of exec: a failed search leaves lastIndex where it was
execKeepsLastIndex(pattern, s) ==
    LET at == IF pattern.lastIndex > Len(s) THEN 0
              ELSE Search(s, pattern.lastIndex + 1)
    IN  IF at = 0 THEN [match |-> Null, pattern |-> pattern]
        ELSE [match |-> [found |-> TRUE,
                         threadId |-> MatchAt(s, at).threadId,
                         folderId |-> MatchAt(s, at).folderId],
              pattern |-> [lastIndex |-> MatchAt(s, at).lastIndex - 1]]

\* pattern.exec(s) of a pattern with the g flag: the search starts at the
\* pattern's lastIndex (counted from 0); a match moves lastIndex behind it, a
\* failed search sets it to 0 and returns null
exec(pattern, s) ==
    LET at == IF pattern.lastIndex > Len(s) THEN 0
              ELSE Search(s, pattern.lastIndex + 1)
    IN  IF at = 0 THEN [match |-> Null, pattern |-> [lastIndex |-> 0]]
        ELSE [match |-> [found |-> TRUE,
                         threadId |-> MatchAt(s, at).threadId,
                         folderId |-> MatchAt(s, at).folderId],
              pattern |-> [lastIndex |-> MatchAt(s, at).lastIndex - 1]]

RECURSIVE ExecWhile(_, _)
\* while ((match = CONFIG.mailPattern.exec(content)) !== null) on a pattern
\* object that outlives the call: the threads pushed, and the object after
ExecWhile(pattern, s) ==
    LET e == exec(pattern, s)
    IN  IF ~e.match.found THEN [threads |-> <<>>, pattern |-> e.pattern]
        ELSE LET rest == ExecWhile(e.pattern, s)
             IN  [threads |-> <<[threadId |-> e.match.threadId,
                                 folderId |-> e.match.folderId]>>
                                  \o rest.threads,
                  pattern |-> rest.pattern]

\* content_script.js extractEmailThreadInfo, on the shared pattern object
extractEmailThreadInfo(pattern, content) ==
    LET run == ExecWhile(pattern, content)
    IN  [formattedEmails |-> Labels(run.threads), folderThreads |-> run.threads,
         pattern |-> run.pattern]

\* shared/mail.js parseMailPattern
parseMailPattern(content) ==
    LET threads == ExecAll(content, 1)
    IN  [context_message_uid |-> Labels(threads), folderThreads |-> threads]

\* getMessageItemContent(): the class names of the message items, joined
PageContents ==
    { <<"A", " ", "B">>,
      <<"mail-", "4", "@", "A">>,
      <<"mail-", "4", "@", "A", " ", "mail-", "9", "@", "B">> }

\* faulty variant of ActiveMailbox: the latest entry is taken
ActiveMailboxLast(list) == list[Len(list)]

\* const mailboxId = mailboxIds[0]
ActiveMailbox(list) == list[1]

\* faulty variant of LastThread: the first thread is taken
FirstThread(threads) == threads[1]

\* folderThreads[folderThreads.length - 1]
LastThread(threads) == threads[Len(threads)]

\* the texts the parsers are run on: up to MaxChunks pieces of class names,
\* with and without a marker, with and without a space behind them
Chunks ==
    { <<"mail-", "4", "@", "A", " ">>,
      <<"mail-", "9", "@", "B">>,
      <<"mail-", "4", "9", "@", "-", " ">>,
      <<"mail-", "@", "A", " ">>,
      <<"mail-", "4", " ">>,
      <<"B", " ">> }

RECURSIVE Flatten(_)
Flatten(pieces) ==
    IF pieces = <<>> THEN <<>> ELSE Head(pieces) \o Flatten(Tail(pieces))

Texts == { Flatten(pieces) : pieces \in UNION { [1..n -> Chunks] : n \in 0..MaxChunks } }

NotParsed == [done |-> FALSE, labels |-> <<>>, folderThreads |-> <<>>]

\* the log holds what each parser returned on the latest text parsed
NothingParsed ==
    [text |-> <<>>, page |-> NotParsed, pageCalls |-> 0, popup |-> NotParsed]

\* the page script parses a text: a call of extractEmailThreadInfo (the
\* number of calls is counted up to MaxParses)
Extract(content) ==
    /\ LET info == extractEmailThreadInfo(mailPattern, content)
       IN  /\ parseLog' = [parseLog EXCEPT
                    !.text = content,
                    !.page = [done |-> TRUE, labels |-> info.formattedEmails,
                              folderThreads |-> info.folderThreads],
                    !.pageCalls = IF @ < MaxParses THEN @ + 1 ELSE @,
                    !.popup = IF parseLog.text = content THEN @ ELSE NotParsed]
           /\ mailPattern' = info.pattern
    /\ UNCHANGED <<apiToken, mailboxIds, firstCaptured, lastCaptured, cap, call, pg,
                 daily, show, rendered>>

\* the popup parses a text: a call of parseMailPattern
Parse(content) ==
    /\ LET parsedContent == parseMailPattern(content)
       IN  parseLog' = [parseLog EXCEPT
                !.text = content,
                !.popup = [done |-> TRUE,
                           labels |-> parsedContent.context_message_uid,
                           folderThreads |-> parsedContent.folderThreads],
                !.page = IF parseLog.text = content THEN @ ELSE NotParsed]
    /\ UNCHANGED <<apiToken, mailboxIds, firstCaptured, lastCaptured, cap, call, pg,
                 daily, show, mailPattern, rendered>>

\* --------------------------------------- page script: the button's click
\* the url given to window.open: the address before "?" and the two ends of
\* its dates parameter, none when it has no such parameter
BlankUrl == [base |-> "", dates |-> <<>>]

\* blocked tells that window.open yielded null; url is what window.open was
\* given
IdlePage ==
    [pc |-> "idle", formattedEmails |-> <<>>, folderThreads |-> <<>>,
     call |-> 0, latestAtRead |-> NoId, opened |-> FALSE, blocked |-> FALSE,
     text |-> "", url |-> BlankUrl]

\* the click handler and callApi up to its first await: the content is
\* parsed; without a thread callApi returns, else the registry read starts
PageClick(content) ==
    /\ pg.pc = "idle"
    /\ LET info == extractEmailThreadInfo(mailPattern, content)
       IN  /\ pg' = IF Len(info.folderThreads) = 0
                     THEN [pg EXCEPT !.pc = "returned"]
                     ELSE [pg EXCEPT !.pc = "readRegistry",
                                     !.formattedEmails = info.formattedEmails,
                                     !.folderThreads = info.folderThreads]
           /\ mailPattern' = info.pattern
    /\ UNCHANGED <<apiToken, mailboxIds, firstCaptured, lastCaptured, cap, call, daily,
                 show, parseLog, rendered>>

\* faulty variant of PageStorageGet: an empty list is not looked for
PageStorageGetUnchecked(lastError) ==
    /\ pg.pc = "readRegistry"
    /\ IF lastError
       THEN /\ pg' = [pg EXCEPT !.pc = "rejected", !.text = DestructureErrorMessage]
            /\ call' = call
       ELSE \E c \in Calls :
                /\ call[c].pc = "idle"
                /\ \A d \in 1..(c - 1) : call[d].pc # "idle"
                /\ LET lastThread == LastThread(pg.folderThreads)
                       msg == [action |-> "callApi",
                               payload |-> Payload(IF Len(mailboxIds) = 0
                                                   THEN Undefined
                                                   ELSE ActiveMailbox(mailboxIds),
                                              lastThread.folderId,
                                              lastThread.threadId,
                                              Array(pg.formattedEmails))]
                   IN  /\ call' = [call EXCEPT ![c] =
                              [@ EXCEPT !.pc = "sent", !.sender = "page",
                                        !.msg = msg]]
                       /\ pg' = [pg EXCEPT !.pc = "awaitResponse", !.call = c,
                                           !.latestAtRead = lastCaptured]
    /\ UNCHANGED <<apiToken, mailboxIds, firstCaptured, lastCaptured, cap, daily,
                 show, mailPattern, parseLog, rendered>>

\* the page script's own storageGet resolves with whatever the callback gets:
\* on a storage failure that is undefined and the destructuring throws; with
\* an empty registry callApi returns; else the callApi message is sent
PageStorageGet(lastError) ==
    /\ pg.pc = "readRegistry"
    /\ IF lastError
       THEN /\ pg' = [pg EXCEPT !.pc = "rejected", !.text = DestructureErrorMessage]
            /\ call' = call
       ELSE IF Len(mailboxIds) = 0
            THEN /\ pg' = [pg EXCEPT !.pc = "returned"]
                 /\ call' = call
            ELSE \E c \in Calls :
                    /\ call[c].pc = "idle"
                    /\ \A d \in 1..(c - 1) : call[d].pc # "idle"
                    /\ LET lastThread == LastThread(pg.folderThreads)
                           msg == [action |-> "callApi",
                                   payload |-> Payload(ActiveMailbox(mailboxIds),
                                                  lastThread.folderId,
                                                  lastThread.threadId,
                                                  Array(pg.formattedEmails))]
                       IN  /\ call' = [call EXCEPT ![c] =
                                  [@ EXCEPT !.pc = "sent", !.sender = "page",
                                            !.msg = msg]]
                           /\ pg' = [pg EXCEPT !.pc = "awaitResponse", !.call = c,
                                               !.latestAtRead = lastCaptured]
    /\ UNCHANGED <<apiToken, mailboxIds, firstCaptured, lastCaptured, cap, daily,
                 show, mailPattern, parseLog, rendered>>

\* response.description || response.analysis || the fixed fallback text
\* (written here without its accent)
ResponseText(response) ==
    IF ~Falsy(Field(response, "description")) THEN response.description
    ELSE IF ~Falsy(Field(response, "analysis")) THEN response.analysis
         ELSE "Aucune reponse de l'IA."

\* a number, or NaN
Num(n) == [finite |-> TRUE, n |-> n]
NaN == [finite |-> FALSE, n |-> 0]

\* Number(text)
Number(text) ==
    CASE text = "2025" -> Num(2025)
      [] text = "06" -> Num(6)
      [] text = "01" -> Num(1)
      [] text = "14" -> Num(14)
      [] text = "00" -> Num(0)
      [] OTHER -> NaN

\* text.split("-") for a date, text.split(":") for a time
Split(text) ==
    CASE text = "2025-06-01" -> <<"2025", "06", "01">>
      [] text = "14:00" -> <<"14", "00">>
      [] OTHER -> <<text>>

\* const [a, b, c] = parts.map(Number): the i-th name, undefined (which is
\* not finite) past the end
Component(parts, i) == IF i <= Len(parts) THEN Number(parts[i]) ELSE NaN

NoDate == [valid |-> FALSE, year |-> 0, month |-> 0, day |-> 0, minutes |-> 0]

\* parseDateTime: the local date of the five numbers, null when one of them
\* is not finite or when split throws on a text that is not there; the range
\* of a number is not looked at
parseDateTime(dateStr, timeStr) ==
    IF dateStr = Undefined \/ timeStr = Undefined THEN NoDate
    ELSE LET y == Component(Split(dateStr), 1)
             m == Component(Split(dateStr), 2)
             d == Component(Split(dateStr), 3)
             hh == Component(Split(timeStr), 1)
             mm == Component(Split(timeStr), 2)
         IN  IF y.finite /\ m.finite /\ d.finite /\ hh.finite /\ mm.finite
             THEN [valid |-> TRUE, year |-> y.n, month |-> m.n - 1, day |-> d.n,
                   minutes |-> hh.n * 60 + mm.n]
             ELSE NoDate

\* window.open("", "_blank"): the window handleApiResponse opens has no
\* address; the builder of the calendar address is commented out and
\* parseDateTime is called from nowhere
OpenedUrl(response) == BlankUrl

\* runtimeSendMessage resolves with the response and handleApiResponse writes
\* it into a new window; window.open may yield null, and win.document throws
PageHandleResponse(blocked) ==
    /\ pg.pc = "awaitResponse"
    /\ call[pg.call].resp # <<>>
    /\ pg' = IF blocked
             THEN [pg EXCEPT !.pc = "rejected", !.blocked = TRUE,
                             !.text = NullWindowErrorMessage]
             ELSE [pg EXCEPT !.pc = "handled", !.opened = TRUE,
                             !.url = OpenedUrl(call[pg.call].resp[1]),
                             !.text = ResponseText(call[pg.call].resp[1])]
    /\ UNCHANGED <<apiToken, mailboxIds, firstCaptured, lastCaptured, cap, call, daily,
                 show, mailPattern, parseLog, rendered>>

\* ------------------------------------- page script: onMessage listener
\* the messages handed to both listeners: a valid and an invalid callApi, the
\* popup's extractMessageItems, another action, and a message without action
ListenerMessages ==
    { [action |-> "callApi", payload |-> Payload("a1", "A", "4", Array(<<"4@A">>))],
      [action |-> "callApi", payload |-> NoPayload],
      [action |-> "extractMessageItems", payload |-> NoPayload],
      [action |-> "ping", payload |-> NoPayload],
      [action |-> Undefined, payload |-> NoPayload] }

\* faulty variant of Heard: the action is not looked at
HeardAnswersAll(r, throws, data) ==
    IF throws
    THEN [r EXCEPT !.page = "answered",
                   !.resp = Append(@, [success |-> FALSE,
                                       error |-> ExtractionErrorMessage])]
    ELSE [r EXCEPT !.page = "answered",
                   !.resp = Append(@, [success |-> TRUE, data |-> data])]

\* the page script's listener on the call record: an extractMessageItems
\* message is answered with the content, or with the error getMessageItemContent
\* threw; any other message is declined (return false)
Heard(r, throws, data) ==
    IF r.msg.action # "extractMessageItems" THEN [r EXCEPT !.page = "declined"]
    ELSE IF throws
         THEN [r EXCEPT !.page = "answered",
                        !.resp = Append(@, [success |-> FALSE,
                                            error |-> ExtractionErrorMessage])]
         ELSE [r EXCEPT !.page = "answered",
                        !.resp = Append(@, [success |-> TRUE, data |-> data])]

PageListener(c, throws, data) ==
    /\ call[c].pc # "idle"
    /\ call[c].page = "unheard"
    /\ call' = [call EXCEPT ![c] = Heard(@, throws, data)]
    /\ UNCHANGED <<apiToken, mailboxIds, firstCaptured, lastCaptured, cap, pg, daily,
                 show, mailPattern, parseLog, rendered>>

\* ------------------------------------------ popup: digest document
\* JSON values: a string is its characters or words (the characters "<", ">"
\* and "&" always on their own), an array its items, and null
Str(chars) == [type |-> "string", chars |-> chars]
JsonNull == [type |-> "null"]

\* a JSON object is its members in the order of the text: <<key, value>> pairs
Obj(members) == [type |-> "object", members |-> members]
Keys(data) == {data.members[i][1] : i \in 1..Len(data.members)}

\* data[key]
Member(data, key) ==
    data.members[CHOOSE i \in 1..Len(data.members) : data.members[i][1] = key][2]

\* !value for a JSON value
Not(value) ==
    \/ value.type = "null"
    \/ value.type = "string" /\ value.chars = <<>>

RECURSIVE JoinWith(_, _)
\* items.join(sep), as one text
JoinWith(items, sep) ==
    IF items = <<>> THEN <<>>
    ELSE IF Len(items) = 1 THEN Head(items)
         ELSE Head(items) \o <<sep>> \o JoinWith(Tail(items), sep)

\* String(value), which the assignment to textContent makes of a value
TextOf(value) ==
    IF value.type = "string" THEN value.chars
    ELSE IF value.type = "array" THEN JoinWith(value.items, ",")
         ELSE <<"null">>

\* faulty variant of escape: the text is inserted as it is
escapeNothing(text) == text

\* escape: div.textContent = text; return div.innerHTML
escape(text) ==
    [i \in 1..Len(text) |->
        IF text[i] = "<" THEN "&lt;"
        ELSE IF text[i] = ">" THEN "&gt;"
             ELSE IF text[i] = "&" THEN "&amp;" ELSE text[i]]

\* formatDate: new Date(isoDate).toLocaleDateString("fr-FR", ...): the date
\* in words when the text is one, "Invalid Date" when it is not
formatDate(text) ==
    IF text = <<"2025-06-01">> THEN <<"1 juin 2025">> ELSE <<"Invalid Date">>

labels ==
    [title |-> "Titre", summary |-> "Resume", date |-> "Date",
     emails |-> "Adresses e-mail", action_items |-> "Actions a faire",
     topics |-> "Sujets"]

\* faulty variant of order: date before summary
orderDateFirst == <<"title", "date", "summary", "emails", "action_items", "topics">>

order == <<"title", "summary", "date", "emails", "action_items", "topics">>

\* what one turn of the loop appends to html for key: nothing, the banner of
\* the title, or a block of the label and the content.  texts are the texts
\* put into the markup, by is the function they went through
Block(data, key) ==
    IF key \notin Keys(data) THEN <<>>
    ELSE LET value == Member(data, key)
         IN  IF Not(value) \/ (IsArray(value) /\ Len(value.items) = 0) THEN <<>>
             ELSE IF key = "title"
                  THEN <<[key |-> key, tag |-> "div", label |-> "",
                          texts |-> <<escape(TextOf(value))>>, by |-> "escape"]>>
             ELSE IF key = "date"
                  THEN <<[key |-> key, tag |-> "em", label |-> labels[key],
                          texts |-> <<formatDate(TextOf(value))>>,
                          by |-> "formatDate"]>>
             ELSE IF IsArray(value)
                  THEN <<[key |-> key, tag |-> "ul", label |-> labels[key],
                          texts |-> [i \in 1..Len(value.items) |->
                                        escape(value.items[i])],
                          by |-> "escape"]>>
             ELSE <<[key |-> key, tag |-> "p", label |-> labels[key],
                     texts |-> <<escape(TextOf(value))>>, by |-> "escape"]>>

RECURSIVE Blocks(_, _)
\* for (const key of order) { ... }: the blocks of the keys, in their order
Blocks(data, keys) ==
    IF keys = <<>> THEN <<>>
    ELSE Block(data, Head(keys)) \o Blocks(data, Tail(keys))

\* jsonToSummaryHTML: the blocks inside the one wrapping div; "key in data"
\* throws when data is null
jsonToSummaryHTML(data) ==
    IF data.type = "null" THEN Throw(InOperatorErrorMessage)
    ELSE Return(Blocks(data, order))

\* the values a member of a digest object may have
DigestValues ==
    { Str(<<"Hello">>), Str(<<"<", "script", ">", "&">>), Str(<<"2025-06-01">>),
      Str(<<>>), JsonNull, Array(<<>>),
      Array(<< <<"a@b.ch">>, <<"<", "i", ">">> >>) }

DigestKeys ==
    {"title", "summary", "date", "emails", "action_items", "topics", "detail"}

\* the objects of up to MaxFields members, no key twice
DigestObjects ==
    { Obj(members) :
        members \in
            { m \in UNION { [1..n -> DigestKeys \X DigestValues] : n \in 0..MaxFields } :
                \A i, j \in 1..Len(m) : m[i][1] = m[j][1] => i = j } }

NothingRendered == [done |-> FALSE, data |-> JsonNull, out |-> Pending]

\* jsonToSummaryHTML is called on the data at hand
Render ==
    /\ ~rendered.done
    /\ rendered' = [rendered EXCEPT !.done = TRUE,
                                    !.out = jsonToSummaryHTML(rendered.data)]
    /\ UNCHANGED <<apiToken, mailboxIds, firstCaptured, lastCaptured, cap, call, pg,
                 daily, show, mailPattern, parseLog>>

\* ------------------------------------------- popup: daily digest flow
\* the request showDaily hands to fetch
DailyRequest(mailboxId, folderId, token) ==
    [method |-> "POST",
     url |-> API_BASE_URL \o "/daily/" \o mailboxId
                 \o "/folder/" \o folderId \o "/message",
     contentType |-> "application/json",
     authorization |-> "Bearer " \o token,
     credentials |-> "omit"]

\* bodies the daily endpoint's answer may parse to
DigestBodies ==
    { Obj(<< <<"summary", Str(<<"Two new mails">>)>>,
             <<"title", Str(<<"Daily digest">>)>> >>),
      Obj(<< <<"detail", Str(<<"Internal Server Error">>)>> >>),
      JsonNull }

\* token is what the flow's read of apiToken gave; doc is what was written
\* into the summary window
IdleDaily ==
    [pc |-> "idle", status |-> "", folderThreads |-> <<>>, mailboxId |-> NoId,
     token |-> "unread", reqs |-> <<>>, http |-> NoResponse, opened |-> FALSE,
     blocked |-> FALSE, doc |-> <<>>]

\* the showDaily button: fetchAndShowDaily up to its first await (the status
\* text's ellipsis character is written as three dots)
DailyClick ==
    /\ daily.pc = "idle"
    /\ daily' = [daily EXCEPT !.pc = "queryTab", !.status = "Loading..."]
    /\ UNCHANGED <<apiToken, mailboxIds, firstCaptured, lastCaptured, cap, call, pg,
                 show, mailPattern, parseLog, rendered>>

\* queryActiveTab settles; with a tab the page script is injected (a failure
\* of that is only logged) and asked for the message items
DailyQueryTab(outcome) ==
    /\ daily.pc = "queryTab"
    /\ daily' =
        IF outcome = "lastError"
        THEN [daily EXCEPT !.pc = "done", !.status = "Error: " \o TabErrorMessage]
        ELSE IF outcome = "noTab"
             THEN [daily EXCEPT !.pc = "done", !.status = "No active tab found."]
             ELSE [daily EXCEPT !.pc = "extract"]
    /\ UNCHANGED <<apiToken, mailboxIds, firstCaptured, lastCaptured, cap, call, pg,
                 show, mailPattern, parseLog, rendered>>

\* sendMessageToTab settles with the page script's answer; its data is parsed
\* and showDaily runs up to its first await
DailyExtracted(outcome, content) ==
    /\ daily.pc = "extract"
    /\ daily' =
        IF outcome = "lastError"
        THEN [daily EXCEPT !.pc = "done", !.status = "Error: " \o TabErrorMessage]
        ELSE IF outcome = "failure"
             THEN [daily EXCEPT !.pc = "done",
                                !.status = "Failed to process daily mails: "
                                               \o ExtractionErrorMessage]
             ELSE LET parsedData == parseMailPattern(content)
                  IN  IF Len(parsedData.folderThreads) = 0
                      THEN [daily EXCEPT !.pc = "done",
                                         !.status = "No thread found."]
                      ELSE [daily EXCEPT !.pc = "readRegistry",
                                         !.folderThreads = parsedData.folderThreads]
    /\ UNCHANGED <<apiToken, mailboxIds, firstCaptured, lastCaptured, cap, call, pg,
                 show, mailPattern, parseLog, rendered>>

\* faulty variant of DailyStorageGetRegistry: an empty list is not looked for
DailyStorageGetRegistryUnchecked(lastError) ==
    /\ daily.pc = "readRegistry"
    /\ LET got == storageGet(lastError, mailboxIds)
       IN  daily' =
            IF got.kind # "return"
            THEN [daily EXCEPT !.pc = "done",
                               !.status = "Error: " \o StorageErrorMessage]
            ELSE [daily EXCEPT !.pc = "readToken",
                               !.mailboxId = IF Len(got.value) = 0 THEN Undefined
                                             ELSE ActiveMailbox(got.value)]
    /\ UNCHANGED <<apiToken, mailboxIds, firstCaptured, lastCaptured, cap, call, pg,
                 show, mailPattern, parseLog, rendered>>

\* showDaily's read of mailboxIds settles
DailyStorageGetRegistry(lastError) ==
    /\ daily.pc = "readRegistry"
    /\ LET got == storageGet(lastError, mailboxIds)
       IN  daily' =
            IF got.kind # "return"
            THEN [daily EXCEPT !.pc = "done",
                               !.status = "Error: " \o StorageErrorMessage]
            ELSE IF Len(got.value) = 0
                 THEN [daily EXCEPT !.pc = "done",
                                    !.status = "No mailbox ID found."]
                 ELSE [daily EXCEPT !.pc = "readToken",
                                    !.mailboxId = ActiveMailbox(got.value)]
    /\ UNCHANGED <<apiToken, mailboxIds, firstCaptured, lastCaptured, cap, call, pg,
                 show, mailPattern, parseLog, rendered>>

\* faulty variant of DailyToken: the token is used without the test
DailyTokenUnchecked(got) ==
    IF got.kind # "return" THEN got ELSE Return(got.value)

\* const {apiToken} = await storageGet("apiToken");
\* if (!apiToken) throw new Error("API Token is not set.")
DailyToken(got) ==
    IF got.kind # "return" THEN got
    ELSE IF Falsy(got.value) THEN Throw("API Token is not set.")
         ELSE Return(got.value)

\* showDaily's read of apiToken settles: without a token the flow throws into
\* its catch, which shows the message; with one fetch is called
DailyStorageGetToken(lastError) ==
    /\ daily.pc = "readToken"
    /\ LET got == storageGet(lastError, apiToken)
           token == DailyToken(got)
           d == [daily EXCEPT !.token = IF lastError THEN "lastError" ELSE apiToken]
       IN  daily' =
            IF token.kind = "throw"
            THEN [d EXCEPT !.pc = "done", !.status = "Error: " \o token.message]
            ELSE [d EXCEPT !.pc = "fetch",
                           !.reqs = Append(@, DailyRequest(daily.mailboxId,
                                        LastThread(daily.folderThreads).folderId,
                                        token.value))]
    /\ UNCHANGED <<apiToken, mailboxIds, firstCaptured, lastCaptured, cap, call, pg,
                 show, mailPattern, parseLog, rendered>>

\* fetch settles; the status of the response is not looked at
DailyFetchDone(rejected, response) ==
    /\ daily.pc = "fetch"
    /\ daily' =
        IF rejected
        THEN [daily EXCEPT !.pc = "done",
                           !.status = "Error: " \o NetworkErrorMessage]
        ELSE [daily EXCEPT !.pc = "json", !.http = response]
    /\ UNCHANGED <<apiToken, mailboxIds, firstCaptured, lastCaptured, cap, call, pg,
                 show, mailPattern, parseLog, rendered>>

\* response.json() settles and the summary window is opened: a blocked window
\* is logged and the status left as it is; in an open window the document
\* jsonToSummaryHTML makes of the body is written, and what it throws is
\* shown by the catch
DailyJsonDone(unparsable, body, blocked) ==
    /\ daily.pc = "json"
    /\ daily' =
        IF unparsable
        THEN [daily EXCEPT !.pc = "done",
                           !.status = "Error: " \o SyntaxErrorMessage]
        ELSE IF blocked
             THEN [daily EXCEPT !.pc = "done", !.blocked = TRUE]
             ELSE LET html == jsonToSummaryHTML(body)
                  IN  IF html.kind = "throw"
                      THEN [daily EXCEPT !.pc = "done", !.opened = TRUE,
                                         !.status = "Error: " \o html.message]
                      ELSE [daily EXCEPT !.pc = "done", !.opened = TRUE,
                                         !.doc = html.value,
                                         !.status = "Emails successfully processed"]
    /\ UNCHANGED <<apiToken, mailboxIds, firstCaptured, lastCaptured, cap, call, pg,
                 show, mailPattern, parseLog, rendered>>

\* ------------------------------------------- popup: show-content flow
\* the path displayUrlForLastThread shows
EventSuggestionPath(mailboxId, lastThread) ==
    "/mail/" \o mailboxId \o "/folder/" \o lastThread.folderId
        \o "/thread/" \o lastThread.threadId \o "/event_suggestion"

\* content and urls are the texts of contentOutput and urlsOutput; shown is
\* the parsed content whose JSON text contentOutput holds
IdleShow ==
    [pc |-> "idle", content |-> "", urls |-> "", shown |-> <<>>,
     folderThreads |-> <<>>]

\* the showContent button: fetchAndDisplayMessageContent up to its first await
ShowClick ==
    /\ show.pc = "idle"
    /\ show' = [show EXCEPT !.pc = "queryTab", !.content = "Loading...",
                            !.urls = ""]
    /\ UNCHANGED <<apiToken, mailboxIds, firstCaptured, lastCaptured, cap, call, pg,
                 daily, mailPattern, parseLog, rendered>>

\* queryActiveTab settles; with a tab the page script is asked for the items
ShowQueryTab(outcome) ==
    /\ show.pc = "queryTab"
    /\ show' =
        IF outcome = "lastError"
        THEN [show EXCEPT !.pc = "done", !.content = "Error: " \o TabErrorMessage]
        ELSE IF outcome = "noTab"
             THEN [show EXCEPT !.pc = "done", !.content = "No active tab found."]
             ELSE [show EXCEPT !.pc = "extract"]
    /\ UNCHANGED <<apiToken, mailboxIds, firstCaptured, lastCaptured, cap, call, pg,
                 daily, mailPattern, parseLog, rendered>>

\* sendMessageToTab settles; the data is parsed and shown, and
\* displayUrlForLastThread runs up to its await
ShowExtracted(outcome, content) ==
    /\ show.pc = "extract"
    /\ show' =
        IF outcome = "lastError"
        THEN [show EXCEPT !.pc = "done", !.content = "Error: " \o TabErrorMessage]
        ELSE IF outcome = "failure"
             THEN [show EXCEPT !.pc = "done",
                               !.content = "Failed to extract message items: "
                                               \o ExtractionErrorMessage]
             ELSE LET parsedContent == parseMailPattern(content)
                  IN  IF Len(parsedContent.folderThreads) = 0
                      THEN [show EXCEPT !.pc = "done", !.content = "JSON",
                                        !.shown = parsedContent.context_message_uid,
                                        !.urls = "No thread found."]
                      ELSE [show EXCEPT !.pc = "readRegistry", !.content = "JSON",
                                        !.shown = parsedContent.context_message_uid,
                                        !.folderThreads = parsedContent.folderThreads]
    /\ UNCHANGED <<apiToken, mailboxIds, firstCaptured, lastCaptured, cap, call, pg,
                 daily, mailPattern, parseLog, rendered>>

\* displayUrlForLastThread's read of mailboxIds settles
ShowStorageGet(lastError) ==
    /\ show.pc = "readRegistry"
    /\ LET got == storageGet(lastError, mailboxIds)
       IN  show' =
            IF got.kind # "return"
            THEN [show EXCEPT !.pc = "done",
                              !.urls = "Error reading mailbox IDs: "
                                           \o StorageErrorMessage]
            ELSE IF Len(got.value) = 0
                 THEN [show EXCEPT !.pc = "done", !.urls = "No mailbox ID found."]
                 ELSE [show EXCEPT !.pc = "done",
                           !.urls = EventSuggestionPath(ActiveMailbox(got.value),
                                                        LastThread(show.folderThreads))]
    /\ UNCHANGED <<apiToken, mailboxIds, firstCaptured, lastCaptured, cap, call, pg,
                 daily, mailPattern, parseLog, rendered>>

\* ------------------------------------------------------- specifications
Init ==
    /\ apiToken = Undefined
    /\ mailboxIds = <<>>
    /\ firstCaptured = NoId
    /\ lastCaptured = NoId
    /\ cap = [c \in Captures |-> IdleCapture]
    /\ call = [c \in Calls |-> IdleCall]
    /\ pg = IdlePage
    /\ daily = IdleDaily
    /\ show = IdleShow
    /\ mailPattern = NewPattern
    /\ parseLog = NothingParsed
    /\ rendered = NothingRendered

Capture ==
    \/ \E c \in Captures, url \in ObservedUrls : CaptureStart(c, url)
    \/ \E c \in Captures, lastError \in BOOLEAN : CaptureStorageGet(c, lastError)
    \/ \E c \in Captures, lastError \in BOOLEAN : CaptureStorageSet(c, lastError)

CaptureSeq ==
    \/ \E c \in Captures, url \in ObservedUrls : CaptureStartSeq(c, url)
    \/ \E c \in Captures, lastError \in BOOLEAN : CaptureStorageGet(c, lastError)
    \/ \E c \in Captures, lastError \in BOOLEAN : CaptureStorageSet(c, lastError)

SaveToken ==
    \E input \in TokenInputs, lastError \in BOOLEAN : SaveApiToken(input, lastError)

Send ==
    \E c \in Calls, msg \in Messages : SendMessage(c, msg)

Orchestrate ==
    \/ \E c \in Calls : Listener(c)
    \/ \E c \in Calls, lastError \in BOOLEAN : GetApiTokenDone(c, lastError)
    \/ \E c \in Calls, rejected \in BOOLEAN, response \in HttpResponses :
            FetchDone(c, rejected, response)
    \/ \E c \in Calls, unparsable \in BOOLEAN, body \in EventBodies :
            JsonDone(c, unparsable, body)

Listen ==
    \E c \in Calls, throws \in BOOLEAN, data \in PageContents :
        PageListener(c, throws, data)

Page ==
    \/ \E content \in PageContents : PageClick(content)
    \/ \E lastError \in BOOLEAN : PageStorageGet(lastError)
    \/ \E blocked \in BOOLEAN : PageHandleResponse(blocked)

Daily ==
    \/ DailyClick
    \/ \E outcome \in {"tab", "noTab", "lastError"} : DailyQueryTab(outcome)
    \/ \E outcome \in {"success", "failure", "lastError"}, content \in PageContents :
            DailyExtracted(outcome, content)
    \/ \E lastError \in BOOLEAN : DailyStorageGetRegistry(lastError)
    \/ \E lastError \in BOOLEAN : DailyStorageGetToken(lastError)
    \/ \E rejected \in BOOLEAN, response \in HttpResponses :
            DailyFetchDone(rejected, response)
    \/ \E unparsable \in BOOLEAN, body \in DigestBodies, blocked \in BOOLEAN :
            DailyJsonDone(unparsable, body, blocked)

Show ==
    \/ ShowClick
    \/ \E outcome \in {"tab", "noTab", "lastError"} : ShowQueryTab(outcome)
    \/ \E outcome \in {"success", "failure", "lastError"}, content \in PageContents :
            ShowExtracted(outcome, content)
    \/ \E lastError \in BOOLEAN : ShowStorageGet(lastError)

\* the whole extension
Next ==
    Capture \/ SaveToken \/ Send \/ Orchestrate \/ Listen \/ Page \/ Daily \/ Show

Spec == Init /\ [][Next]_vars

\* the orchestrator and the credential: messages from any extension context
NextCall == SaveToken \/ Send \/ Orchestrate

SpecCall == Init /\ [][NextCall]_vars

\* every storage read and network call a request starts completes
FairCall ==
    \A c \in Calls :
        /\ WF_vars(Listener(c))
        /\ WF_vars(\E lastError \in BOOLEAN : GetApiTokenDone(c, lastError))
        /\ WF_vars(\E rejected \in BOOLEAN, response \in HttpResponses :
                        FetchDone(c, rejected, response))
        /\ WF_vars(\E unparsable \in BOOLEAN, body \in EventBodies :
                        JsonDone(c, unparsable, body))

FairSpecCall == Init /\ [][NextCall]_vars /\ FairCall

\* the capture listener alone, its invocations interleaving freely
NextCapture == Capture

SpecCapture == Init /\ [][NextCapture]_vars

\* the digest builder alone, on any object and on null
InitSummary ==
    /\ apiToken = Undefined
    /\ mailboxIds = <<>>
    /\ firstCaptured = NoId
    /\ lastCaptured = NoId
    /\ cap = [c \in Captures |-> IdleCapture]
    /\ call = [c \in Calls |-> IdleCall]
    /\ pg = IdlePage
    /\ daily = IdleDaily
    /\ show = IdleShow
    /\ mailPattern = NewPattern
    /\ parseLog = NothingParsed
    /\ \E data \in DigestObjects \cup {JsonNull} :
            rendered = [NothingRendered EXCEPT !.data = data]

NextSummary == Render

SpecSummary == InitSummary /\ [][NextSummary]_vars

\* the two parsers alone, called any number of times on any texts
NextParse ==
    \/ \E content \in Texts : Extract(content)
    \/ \E content \in Texts : Parse(content)

SpecParse == Init /\ [][NextParse]_vars

\* the storage an earlier browser session left: two mailboxes captured, b2
\* before a1, and a token saved
InitStored ==
    /\ apiToken = "tokA"
    /\ mailboxIds = <<"b2", "a1">>
    /\ firstCaptured = "b2"
    /\ lastCaptured = "a1"
    /\ cap = [c \in Captures |-> IdleCapture]
    /\ call = [c \in Calls |-> IdleCall]
    /\ pg = IdlePage
    /\ daily = IdleDaily
    /\ show = IdleShow
    /\ mailPattern = NewPattern
    /\ parseLog = NothingParsed
    /\ rendered = NothingRendered

\* the three user flows side by side, on that storage
NextFlows == Orchestrate \/ Page \/ Daily \/ Show

SpecFlows == InitStored /\ [][NextFlows]_vars

\* every message handed to both listeners, the background's and the page
\* script's, which answer on the one sendResponse of the message
SendAny ==
    \E c \in Calls, msg \in ListenerMessages : SendMessage(c, msg)

NextListeners == SendAny \/ Orchestrate \/ Listen

SpecListeners == InitStored /\ [][NextListeners]_vars

\* one user flow per behaviour: the page's button or the popup's
PageClickAlone(content) ==
    /\ daily.pc = "idle"
    /\ show.pc = "idle"
    /\ PageClick(content)

DailyClickAlone ==
    /\ pg.pc = "idle"
    /\ show.pc = "idle"
    /\ DailyClick

ShowClickAlone ==
    /\ pg.pc = "idle"
    /\ daily.pc = "idle"
    /\ ShowClick

PageAlone ==
    \/ \E content \in PageContents : PageClickAlone(content)
    \/ \E lastError \in BOOLEAN : PageStorageGet(lastError)
    \/ \E blocked \in BOOLEAN : PageHandleResponse(blocked)

DailyAlone ==
    \/ DailyClickAlone
    \/ \E outcome \in {"tab", "noTab", "lastError"} : DailyQueryTab(outcome)
    \/ \E outcome \in {"success", "failure", "lastError"}, content \in PageContents :
            DailyExtracted(outcome, content)
    \/ \E lastError \in BOOLEAN : DailyStorageGetRegistry(lastError)
    \/ \E lastError \in BOOLEAN : DailyStorageGetToken(lastError)
    \/ \E rejected \in BOOLEAN, response \in HttpResponses :
            DailyFetchDone(rejected, response)
    \/ \E unparsable \in BOOLEAN, body \in DigestBodies, blocked \in BOOLEAN :
            DailyJsonDone(unparsable, body, blocked)

ShowAlone ==
    \/ ShowClickAlone
    \/ \E outcome \in {"tab", "noTab", "lastError"} : ShowQueryTab(outcome)
    \/ \E outcome \in {"success", "failure", "lastError"}, content \in PageContents :
            ShowExtracted(outcome, content)
    \/ \E lastError \in BOOLEAN : ShowStorageGet(lastError)

\* a user flow, with capture events that run one after another
NextSeq ==
    CaptureSeq \/ SaveToken \/ Orchestrate \/ PageAlone \/ DailyAlone \/ ShowAlone

SpecSeq == Init /\ [][NextSeq]_vars

\* --------------------------------------------------------------- claims
IsErrorResponse(response) == DOMAIN response = {"error"}

\* the listener has run on the message of slot c
Handled(c) == call[c].pc \notin {"idle", "sent"}

\* a payload that is missing, or lacks a non-empty identifier or an array
Malformed(payload) ==
    \/ payload = NoPayload
    \/ /\ payload # NoPayload
       /\ \/ payload.mailboxId \in {Undefined, ""}
          \/ payload.folderId \in {Undefined, ""}
          \/ payload.threadId \in {Undefined, ""}
          \/ payload.context.type # "array"

Count(list, x) == Cardinality({i \in 1..Len(list) : list[i] = x})

\* C1: a callApi message whose payload is missing, lacks a non-empty
\* mailboxId, folderId or threadId, or whose context is no array, is answered
\* {error: "Invalid payload"} and causes no network request.
C1_InvalidPayloadRejected ==
    \A c \in Calls :
        (/\ Handled(c)
         /\ call[c].msg.action = "callApi"
         /\ Malformed(call[c].msg.payload))
            => /\ call[c].resp = <<[error |-> "Invalid payload"]>>
               /\ call[c].reqs = <<>>

C1_Witness ==
    \E c \in Calls :
        /\ call[c].pc = "responded"
        /\ call[c].msg.payload # NoPayload
        /\ call[c].msg.payload.threadId = Undefined
        /\ call[c].resp = <<[error |-> "Invalid payload"]>>

\* C2: a callApi message with a valid payload whose credential read finds no
\* apiToken stored is answered {error: "API Token is not set."} and causes no
\* network request.
C2_NoTokenNoRequest ==
    \A c \in Calls :
        (/\ call[c].msg.action = "callApi"
         /\ ~Malformed(call[c].msg.payload)
         /\ call[c].storage = "read"
         /\ call[c].token \in {Undefined, ""})
            => /\ call[c].resp = <<[error |-> "API Token is not set."]>>
               /\ call[c].reqs = <<>>

\* the token was absent when the call read it, and has been saved since
C2_Witness ==
    \E c \in Calls :
        /\ call[c].storage = "read"
        /\ call[c].token = Undefined
        /\ apiToken # Undefined
        /\ call[c].resp = <<[error |-> "API Token is not set."]>>

\* C3: the response callback of a callApi request is called at most once, so
\* never with a success payload and an error payload both.
C3_AtMostOneResponse ==
    \A c \in Calls :
        /\ Len(call[c].resp) <= 1
        /\ \A i, j \in 1..Len(call[c].resp) :
              IsErrorResponse(call[c].resp[i]) = IsErrorResponse(call[c].resp[j])

C3_Witness ==
    \E c \in Calls :
        /\ call[c].json = "parsed"
        /\ Len(call[c].resp) = 1
        /\ call[c].resp[1] \in EventBodies

\* C4: every callApi message that is sent is eventually answered, when each
\* storage read and network call it starts completes.
C4_EveryRequestAnswered ==
    \A c \in Calls :
        (call[c].pc = "sent" /\ call[c].msg.action = "callApi")
            ~> (Len(call[c].resp) >= 1)

C4_Witness ==
    \E c \in Calls :
        /\ call[c].storage = "read"
        /\ call[c].net = "rejected"
        /\ Len(call[c].resp) = 1

\* C5: when the backend answers with a non-success status, the response is
\* {error: "Request failed: <status> <statusText>"} and the body is not read
\* into a success payload.
C5_NonOkStatusIsError ==
    \A c \in Calls :
        (call[c].net = "answered" /\ call[c].http.status \notin 200..299)
            => /\ call[c].resp =
                    <<[error |-> "Request failed: "
                                    \o ToString(call[c].http.status) \o " "
                                    \o call[c].http.statusText]>>
               /\ call[c].json = "none"

C5_Witness ==
    \E c \in Calls :
        /\ call[c].http.status = 500
        /\ call[c].resp =
              <<[error |-> "Request failed: 500 Internal Server Error"]>>

\* C6: a failed storage read, a rejected fetch and an unparsable body each end
\* the request with one {error: <message>} response; no request is left
\* without a response by a rejection.
C6_FailuresBecomeErrorResponses ==
    \A c \in Calls :
        /\ call[c].pc # "hung"
        /\ call[c].storage = "lastError"
              => call[c].resp = <<[error |-> StorageErrorMessage]>>
        /\ call[c].net = "rejected"
              => call[c].resp = <<[error |-> NetworkErrorMessage]>>
        /\ call[c].json = "syntaxError"
              => call[c].resp = <<[error |-> SyntaxErrorMessage]>>

C6_Witness ==
    \E c \in Calls :
        /\ call[c].json = "syntaxError"
        /\ call[c].pc = "responded"
        /\ IsErrorResponse(call[c].resp[1])

\* C7: the persisted mailboxIds list never holds an identifier twice, and the
\* identifier of the latest capture that wrote is in it exactly once, for any
\* interleaving of captures.
C7_NoDuplicateMailbox ==
    /\ \A id \in Range(mailboxIds) : Count(mailboxIds, id) = 1
    /\ lastCaptured # NoId => Count(mailboxIds, lastCaptured) = 1

\* the same URL was observed twice and both captures wrote
C7_Witness ==
    /\ cap[1].outcome = "stored"
    /\ cap[2].outcome = "stored"
    /\ cap[1].url = cap[2].url
    /\ mailboxIds = <<cap[1].mailboxId>>

\* C8 as claimed: no step ever removes an identifier from mailboxIds.
C8_MonotoneAlways ==
    [][Range(mailboxIds) \subseteq Range(mailboxIds')]_vars

\* C8 as amended: a step removes an identifier from mailboxIds only when it is
\* the write of a capture whose list changed between its read and its write.
C8_MonotoneUnlessStale ==
    [][\/ Range(mailboxIds) \subseteq Range(mailboxIds')
       \/ \E c \in Captures :
            /\ cap[c].pc = "writing"
            /\ cap'[c].pc = "done"
            /\ cap[c].snap # mailboxIds]_vars

C8_Witness ==
    /\ cap[1].outcome = "stored"
    /\ cap[2].outcome = "stored"
    /\ cap[1].mailboxId # cap[2].mailboxId
    /\ mailboxIds = <<cap[1].mailboxId, cap[2].mailboxId>>

\* C9: with captures that do not overlap, the first identifier written stays
\* at index 0, and every request of the page script's flow and of the daily
\* digest flow is built with it.
C9_FirstCapturedIsUsed ==
    /\ mailboxIds # <<>> => (firstCaptured # NoId /\ mailboxIds[1] = firstCaptured)
    /\ firstCaptured # NoId => (mailboxIds # <<>> /\ mailboxIds[1] = firstCaptured)
    /\ \A c \in Calls :
          call[c].sender = "page"
              => /\ call[c].msg.payload.mailboxId = firstCaptured
                 /\ \A i \in 1..Len(call[c].reqs) :
                       call[c].reqs[i].url =
                           "http://localhost:8000/mail/" \o firstCaptured
                               \o "/folder/" \o LastThread(pg.folderThreads).folderId
                               \o "/thread/" \o LastThread(pg.folderThreads).threadId
                               \o "/event_suggestion"
    /\ \A i \in 1..Len(daily.reqs) :
          daily.reqs[i].url =
              "http://localhost:8000/daily/" \o firstCaptured
                  \o "/folder/" \o LastThread(daily.folderThreads).folderId
                  \o "/message"

\* a second, different identifier was captured before the click, and the
\* request went out with the first
C9_Witness ==
    /\ Len(mailboxIds) = 2
    /\ pg.call # 0
    /\ pg.latestAtRead = mailboxIds[2]
    /\ Len(call[pg.call].reqs) = 1
    /\ call[pg.call].msg.payload.mailboxId = mailboxIds[1]

\* C10 as claimed: the mailboxId of the callApi message the page script sends
\* is the identifier captured latest when the click's registry read is done.
C10_LatestCapturedIsUsed ==
    pg.call # 0 => call[pg.call].msg.payload.mailboxId = pg.latestAtRead

\* C11: a storage failure in a capture, at its read or at its write, does not
\* leave the handler as a rejection and leaves mailboxIds as it was; a capture
\* whose read and write succeed has its identifier in the list it wrote,
\* whatever failed before it.
C11_CaptureFailureSwallowed ==
    [][\A c \in Captures :
          (cap[c].pc # "done" /\ cap'[c].pc = "done")
              => /\ cap'[c].settled = [kind |-> "return", value |-> "undefined"]
                 /\ cap'[c].outcome \in {"readError", "writeError"}
                       => mailboxIds' = mailboxIds
                 /\ cap'[c].outcome = "stored"
                       => \E i \in 1..Len(mailboxIds') :
                              mailboxIds'[i] = cap[c].mailboxId]_vars

\* the write of the first capture failed, the second capture of the same
\* identifier stored it
C11_Witness ==
    /\ cap[1].outcome = "writeError"
    /\ cap[2].outcome = "stored"
    /\ cap[2].mailboxId = cap[1].mailboxId
    /\ mailboxIds = <<cap[1].mailboxId>>

\* the pattern /mail-(\d+)@([a-zA-Z0-9-]+)/ matches s from index i to index k
\* with its "@" at index j, both groups as long as they can be
MarkerAt(s, i, j, k) ==
    /\ i < j - 1 /\ j < k /\ k <= Len(s)
    /\ s[i] = "mail-"
    /\ \A n \in (i + 1)..(j - 1) : s[n] \in {"4", "9"}
    /\ s[j] = "@"
    /\ \A n \in (j + 1)..k : s[n] \in {"4", "9", "A", "B", "-", "mail-"}
    /\ k < Len(s) => s[k + 1] \notin {"4", "9", "A", "B", "-", "mail-"}

IsMarkerStart(s, i) ==
    \E j, k \in 1..Len(s) : MarkerAt(s, i, j, k)

\* the index where the match that starts at index i ends (0 without a match)
MarkerEnd(s, i) ==
    IF IsMarkerStart(s, i)
    THEN CHOOSE k \in 1..Len(s) : \E j \in 1..Len(s) : MarkerAt(s, i, j, k)
    ELSE 0

\* the starts of the matches of a left-to-right scan: a place where the
\* pattern matches and that no earlier match of the scan covers
Markers(s) ==
    CHOOSE S \in SUBSET {i \in 1..Len(s) : s[i] = "mail-"} :
        S = {i \in 1..Len(s) :
                /\ IsMarkerStart(s, i)
                /\ \A m \in S : m < i => MarkerEnd(s, m) < i}

\* the n-th element of a set of numbers
Nth(S, n) == CHOOSE i \in S : Cardinality({m \in S : m <= i}) = n

\* the thread of the match that starts at index i
ThreadAt(s, i) ==
    LET k == MarkerEnd(s, i)
        j == CHOOSE j \in 1..Len(s) : MarkerAt(s, i, j, k)
    IN  [threadId |-> Join(SubSeq(s, i + 1, j - 1)),
         folderId |-> Join(SubSeq(s, j + 1, k))]

\* C12: what parseMailPattern returned on a text is one thread and one label
\* for each match of the marker pattern, in the order of the matches in the
\* text, the label of a thread being its threadId, "@" and its folderId; a
\* text without a match gives two empty lists.
C12_ParseListsTheMatches ==
    parseLog.popup.done =>
        LET s == parseLog.text
            threads == parseLog.popup.folderThreads
            uids == parseLog.popup.labels
        IN  /\ Len(threads) = Cardinality(Markers(s))
            /\ Len(uids) = Len(threads)
            /\ \A n \in 1..Len(threads) :
                  /\ threads[n] = ThreadAt(s, Nth(Markers(s), n))
                  /\ uids[n] = threads[n].threadId \o "@" \o threads[n].folderId
            /\ Markers(s) = {} => (threads = <<>> /\ uids = <<>>)

\* a text of two markers, the second with two digits, was parsed
C12_Witness ==
    /\ parseLog.popup.done
    /\ parseLog.popup.labels = <<"4@A", "49@-">>
    /\ Len(parseLog.popup.folderThreads) = 2

\* C13: on a text both parsers were given, the page script's parser, whose
\* pattern object is shared by all its calls, returned the threads and the
\* labels the popup's parser returned, at its first call and at any later one.
C13_ParsersAgree ==
    (parseLog.page.done /\ parseLog.popup.done)
        => /\ parseLog.page.folderThreads = parseLog.popup.folderThreads
           /\ parseLog.page.labels = parseLog.popup.labels

\* the page script's parser ran more than once, the last time on a text with
\* a marker that the popup's parser was given too
C13_Witness ==
    /\ parseLog.pageCalls >= 2
    /\ parseLog.page.done
    /\ parseLog.popup.done
    /\ Len(parseLog.page.folderThreads) >= 1

\* C14: with one or more threads extracted, the callApi message and request
\* of the page script, the path the popup shows and the daily digest request
\* are each built from the last thread extracted.
C14_LastThreadIsActive ==
    /\ pg.call # 0 =>
          LET n == Len(pg.folderThreads)
              sent == call[pg.call]
          IN  /\ n >= 1
              /\ sent.msg.payload.threadId = pg.folderThreads[n].threadId
              /\ sent.msg.payload.folderId = pg.folderThreads[n].folderId
              /\ \A i \in 1..Len(sent.reqs) :
                    sent.reqs[i].url =
                        "http://localhost:8000/mail/" \o sent.msg.payload.mailboxId
                            \o "/folder/" \o pg.folderThreads[n].folderId
                            \o "/thread/" \o pg.folderThreads[n].threadId
                            \o "/event_suggestion"
    /\ (show.pc = "done" /\ show.folderThreads # <<>>) =>
          LET n == Len(show.folderThreads)
          IN  \/ show.urls = "No mailbox ID found."
              \/ show.urls = "Error reading mailbox IDs: storage unavailable"
              \/ show.urls =
                    "/mail/" \o mailboxIds[1]
                        \o "/folder/" \o show.folderThreads[n].folderId
                        \o "/thread/" \o show.folderThreads[n].threadId
                        \o "/event_suggestion"
    /\ \A i \in 1..Len(daily.reqs) :
          LET n == Len(daily.folderThreads)
          IN  /\ n >= 1
              /\ daily.reqs[i].url =
                    "http://localhost:8000/daily/" \o daily.mailboxId
                        \o "/folder/" \o daily.folderThreads[n].folderId
                        \o "/message"

\* each of the three consumers has used a text of two threads
C14_Witness ==
    /\ pg.call # 0
    /\ Len(pg.folderThreads) = 2
    /\ Len(call[pg.call].reqs) = 1
    /\ call[pg.call].msg.payload.threadId = "9"
    /\ Len(show.folderThreads) = 2
    /\ show.urls = "/mail/b2/folder/B/thread/9/event_suggestion"
    /\ Len(daily.folderThreads) = 2
    /\ Len(daily.reqs) = 1

\* C15: a callApi message with a valid payload whose credential read found a
\* token causes one request: a POST to
\* <base>/mail/<mailboxId>/folder/<folderId>/thread/<threadId>/event_suggestion
\* of the payload's identifiers, with Authorization "Bearer " and the token that
\* was read, and the body {context_message_uid: <the payload's context>}; no
\* other message causes a request.
C15_RequestBuiltFromPayload ==
    \A c \in Calls :
        LET sent == call[c].msg
            valid == /\ sent.action = "callApi"
                     /\ ~Malformed(sent.payload)
                     /\ call[c].storage = "read"
                     /\ call[c].token \notin {Undefined, ""}
        IN  /\ Len(call[c].reqs) = (IF valid THEN 1 ELSE 0)
            /\ valid =>
                  /\ call[c].reqs[1].method = "POST"
                  /\ call[c].reqs[1].url =
                        "http://localhost:8000/mail/" \o sent.payload.mailboxId
                            \o "/folder/" \o sent.payload.folderId
                            \o "/thread/" \o sent.payload.threadId
                            \o "/event_suggestion"
                  /\ call[c].reqs[1].authorization = "Bearer " \o call[c].token
                  /\ call[c].reqs[1].body =
                        [context_message_uid |-> sent.payload.context]

\* the request carries the token read by the call, which has been replaced
\* in storage since
C15_Witness ==
    \E c \in Calls :
        /\ Len(call[c].reqs) = 1
        /\ call[c].token = "tokB"
        /\ apiToken = "tokA"
        /\ call[c].reqs[1].authorization = "Bearer tokB"
        /\ call[c].reqs[1].url =
              "http://localhost:8000/mail/b2/folder/B/thread/9/event_suggestion"

\* C16: with every message handed to both listeners, an extractMessageItems
\* message is declined by the background and answered by the page script, with
\* {success: true, data} or {success: false, error}; a callApi message is
\* declined by the page script and answered by the background only; a message
\* of another action is declined by both; no message gets two responses.
C16_OneListenerPerAction ==
    \A c \in Calls :
        LET m == call[c]
            byPage == {i \in 1..Len(m.resp) : "success" \in DOMAIN m.resp[i]}
        IN  /\ Len(m.resp) <= 1
            /\ m.msg.action = "extractMessageItems" =>
                  /\ m.pc \in {"sent", "declined"}
                  /\ m.page \in {"unheard", "answered"}
                  /\ m.page = "answered" <=> Len(m.resp) = 1
                  /\ \A i \in 1..Len(m.resp) :
                        \/ /\ DOMAIN m.resp[i] = {"success", "data"}
                           /\ m.resp[i].success
                        \/ /\ DOMAIN m.resp[i] = {"success", "error"}
                           /\ ~m.resp[i].success
            /\ m.msg.action = "callApi" =>
                  /\ m.page \in {"unheard", "declined"}
                  /\ m.pc # "declined"
                  /\ byPage = {}
                  /\ m.pc = "responded" <=> Len(m.resp) = 1
            /\ m.msg.action \notin {"extractMessageItems", "callApi"} =>
                  /\ m.pc \in {"idle", "sent", "declined"}
                  /\ m.page \in {"unheard", "declined"}
                  /\ m.resp = <<>>

\* both listeners have run on an extractMessageItems message and on a callApi
\* message
C16_Witness ==
    /\ call[1].msg.action = "extractMessageItems"
    /\ call[1].pc = "declined"
    /\ call[1].page = "answered"
    /\ call[1].resp = <<[success |-> TRUE, data |-> <<"mail-", "4", "@", "A">>]>>
    /\ call[2].msg.action = "callApi"
    /\ call[2].page = "declined"
    /\ call[2].pc = "responded"
    /\ Len(call[2].resp) = 1
    /\ Field(call[2].resp[1], "description") = "Lunch on Friday"

\* the response the fields of one call record alone call for
OwnOutcomeOf(r, response) ==
    IF Malformed(r.msg.payload) THEN response = [error |-> "Invalid payload"]
    ELSE IF r.storage = "lastError" THEN response = [error |-> "storage unavailable"]
    ELSE IF r.token \in {Undefined, ""}
         THEN response = [error |-> "API Token is not set."]
    ELSE IF r.net = "rejected" THEN response = [error |-> "Failed to fetch"]
    ELSE IF r.http.status \notin 200..299
         THEN response = [error |-> "Request failed: " \o ToString(r.http.status)
                                       \o " " \o r.http.statusText]
    ELSE IF r.json = "syntaxError"
         THEN response = [error |-> "Unexpected token < in JSON at position 0"]
    ELSE /\ r.json = "parsed"
         /\ ~IsErrorResponse(response)

\* C17: a step of one callApi request changes no other request; the request
\* it hands to fetch is built from its own payload, and the response its
\* callback gets is the outcome of its own credential read, network call and
\* body, whatever other requests are in flight.
C17_CallsAreIndependent ==
    [][\A c \in Calls :
          call'[c] # call[c] =>
              /\ \A d \in Calls \ {c} : call'[d] = call[d]
              /\ \A i \in 1..Len(call'[c].reqs) :
                    /\ call'[c].reqs[i].url =
                          "http://localhost:8000/mail/"
                              \o call'[c].msg.payload.mailboxId
                              \o "/folder/" \o call'[c].msg.payload.folderId
                              \o "/thread/" \o call'[c].msg.payload.threadId
                              \o "/event_suggestion"
                    /\ call'[c].reqs[i].body.context_message_uid =
                          call'[c].msg.payload.context
              /\ \A i \in 1..Len(call'[c].resp) :
                    OwnOutcomeOf(call'[c], call'[c].resp[i])]_vars

\* two valid requests with different payloads are in flight together: the
\* second is answered from its own network call while the first awaits fetch
C17_Witness ==
    /\ call[1].pc = "fetch"
    /\ call[2].pc = "responded"
    /\ call[2].http.status = 404
    /\ call[1].msg.payload.mailboxId = "a1"
    /\ call[2].msg.payload.mailboxId = "b2"
    /\ call[2].resp = <<[error |-> "Request failed: 404 Not Found"]>>
    /\ call[1].reqs[1].url =
          "http://localhost:8000/mail/a1/folder/A/thread/4/event_suggestion"

\* C18: a step that changes apiToken is a token saving: it changes neither
\* mailboxIds nor any capture, request or flow; a step of a capture leaves
\* apiToken as it is; a step of a callApi request changes neither key; and
\* mailboxIds is changed by captures only.
C18_CredentialWrittenBySaveOnly ==
    [][/\ apiToken' # apiToken =>
            /\ mailboxIds' = mailboxIds
            /\ cap' = cap /\ call' = call
            /\ pg' = pg /\ daily' = daily /\ show' = show
       /\ cap' # cap => apiToken' = apiToken
       /\ call' # call => (apiToken' = apiToken /\ mailboxIds' = mailboxIds)
       /\ mailboxIds' # mailboxIds =>
            \E c \in Captures : cap[c].pc = "writing" /\ cap'[c].pc = "done"]_vars

\* a token was saved after a capture had written, and a request has read it
C18_Witness ==
    /\ mailboxIds = <<"b2", "a1">>
    /\ apiToken = "tokB"
    /\ pg.call # 0
    /\ call[pg.call].token = "tokB"
    /\ Len(call[pg.call].resp) = 1

\* C19: when the daily digest flow's read of apiToken finds no token, the
\* flow is over with the status "Error: API Token is not set.", has made no
\* request and has opened no window.
C19_DailyWithoutToken ==
    daily.token \in {Undefined, ""} =>
        /\ daily.pc = "done"
        /\ daily.status = "Error: API Token is not set."
        /\ daily.reqs = <<>>
        /\ ~daily.opened

\* the flow got as far as the token: a thread was found and a mailbox stored
C19_Witness ==
    /\ daily.token = Undefined
    /\ daily.mailboxId = "b2"
    /\ Len(daily.folderThreads) = 2
    /\ daily.status = "Error: API Token is not set."

\* C20 as claimed: after a response of a status outside 200..299 the daily
\* digest flow shows an error status: it opens no summary window and does
\* not set the status "Emails successfully processed".
C20_DailyNonOkIsError ==
    (daily.pc = "done" /\ daily.http # NoResponse
        /\ daily.http.status \notin 200..299)
        => /\ ~daily.opened
           /\ daily.status # "Emails successfully processed"
           /\ daily.status # "Loading..."

\* C21 as claimed: when window.open yields no window, neither the page
\* script's handleApiResponse nor the daily digest flow throws, and the status
\* text of the popup stays what it was.
C21_BlockedWindowDoesNotThrow ==
    /\ pg.blocked => pg.pc # "rejected"
    /\ daily.blocked => (daily.pc = "done" /\ daily.status = "Loading...")

\* ------------------------------------------------ digest document
KnownFields == {"title", "summary", "date", "emails", "action_items", "topics"}

\* the place of a known field in the document
Rank(key) ==
    CASE key = "title" -> 1
      [] key = "summary" -> 2
      [] key = "date" -> 3
      [] key = "emails" -> 4
      [] key = "action_items" -> 5
      [] key = "topics" -> 6

\* the member key of data is there and is neither falsy nor an empty array
HasContent(data, key) ==
    \E i \in 1..Len(data.members) :
        /\ data.members[i][1] = key
        /\ data.members[i][2] \notin {JsonNull, Str(<<>>), Array(<<>>)}

\* C22: for every digest object the document has sections of known fields
\* only, in the order title, summary, date, emails, action_items, topics
\* whatever the order of the members; a field has a section exactly when it
\* is a member whose value is neither falsy nor an empty array, and an
\* unknown field has none.
C22_KnownFieldsInFixedOrder ==
    (rendered.done /\ rendered.data.type = "object")
        => /\ rendered.out.kind = "return"
           /\ LET html == rendered.out.value
              IN  /\ \A i \in 1..Len(html) : html[i].key \in KnownFields
                  /\ \A i, j \in 1..Len(html) :
                        i < j => Rank(html[i].key) < Rank(html[j].key)
                  /\ \A key \in DigestKeys :
                        (\E i \in 1..Len(html) : html[i].key = key)
                            <=> (key \in KnownFields /\ HasContent(rendered.data, key))

\* an object with the date before the summary, both with content
C22_Witness ==
    /\ rendered.done
    /\ rendered.data = Obj(<< <<"date", Str(<<"2025-06-01">>)>>,
                              <<"summary", Str(<<"Hello">>)>> >>)
    /\ Len(rendered.out.value) = 2
    /\ rendered.out.value[1].key = "summary"
    /\ rendered.out.value[2].key = "date"

\* the texts put into the markup of the document, one after the other
RECURSIVE TextsOf(_)
TextsOf(html) ==
    IF html = <<>> THEN <<>> ELSE Head(html).texts \o TextsOf(Tail(html))

Markup == {"<", ">", "&"}

IsRaw(text) == \E i \in 1..Len(text) : text[i] \in Markup

\* C23 as claimed: every text taken from the digest object, the date
\* included, passes through escape before it is put into the document.
C23_EveryTextEscaped ==
    (rendered.done /\ rendered.out.kind = "return")
        => \A i \in 1..Len(rendered.out.value) : rendered.out.value[i].by = "escape"

\* C23: the title, the summary and every item of a list pass through escape
\* before they are put into the document; the date passes through formatDate
\* only, whose result is the date in words or "Invalid Date"; so no "<", ">"
\* or "&" of a field value reaches the document.
C23_NoRawMarkup ==
    (rendered.done /\ rendered.out.kind = "return")
        => LET html == rendered.out.value
           IN  /\ \A i \in 1..Len(html) :
                    /\ html[i].key # "date" => html[i].by = "escape"
                    /\ html[i].key = "date" =>
                        /\ html[i].by = "formatDate"
                        /\ html[i].texts \in {<< <<"1 juin 2025">> >>,
                                              << <<"Invalid Date">> >>}
               /\ \A t \in 1..Len(TextsOf(html)) : ~IsRaw(TextsOf(html)[t])

\* a summary holding a script tag and a date holding one
C23_Witness ==
    /\ rendered.done
    /\ rendered.data = Obj(<< <<"summary", Str(<<"<", "script", ">", "&">>)>>,
                              <<"date", Str(<<"<", "script", ">", "&">>)>> >>)
    /\ rendered.out.value[1].texts = << <<"&lt;", "script", "&gt;", "&amp;">> >>
    /\ rendered.out.value[2].texts = << <<"Invalid Date">> >>

\* ----------------------------------------------- presentation step
\* the response handleApiResponse was given
PageResponse == call[pg.call].resp[1]

\* handleApiResponse has handled a success payload with a date and a start
IsSuggestion ==
    /\ pg.pc = "handled"
    /\ "error" \notin DOMAIN PageResponse
    /\ {"date", "start_time"} \subseteq DOMAIN PageResponse

CalendarBaseUrl == "https://calendar.infomaniak.com/create"

\* Number(response.duration) || 60
DurationOf(response) ==
    IF "duration" \in DOMAIN response THEN response.duration ELSE 60

\* C24 as claimed: for a success payload whose date and start_time parse the
\* presentation step opens a calendar address whose dates parameter runs from
\* the parsed start to an end exactly duration minutes later, 60 minutes
\* when there is no duration.
C24_CalendarUrlSpansDuration ==
    (IsSuggestion /\ parseDateTime(PageResponse.date, PageResponse.start_time).valid)
        => /\ pg.url.base = CalendarBaseUrl
           /\ Len(pg.url.dates) = 2
           /\ pg.url.dates[1] = parseDateTime(PageResponse.date, PageResponse.start_time)
           /\ pg.url.dates[2].minutes - pg.url.dates[1].minutes
                = DurationOf(PageResponse)

\* C25 as claimed: for a success payload whose date or start_time is
\* malformed the presentation step still opens the calendar address, without
\* a dates parameter.
C25_MalformedDateOmitsDates ==
    (IsSuggestion /\ ~parseDateTime(PageResponse.date, PageResponse.start_time).valid)
        => /\ pg.opened
           /\ pg.url.base = CalendarBaseUrl
           /\ pg.url.dates = <<>>

\* ------------------------------------------------------------ retry
\* C26: no request is made again: for a callApi message the orchestrator
\* makes at most one HTTP request, and exactly one once fetch has settled,
\* whether it was answered 2xx, answered another status, rejected, or the
\* body did not parse; the daily digest flow makes at most one for its click.
C26_NoRetry ==
    /\ \A c \in Calls :
        /\ Len(call[c].reqs) <= 1
        /\ call[c].net # "none" => Len(call[c].reqs) = 1
    /\ Len(daily.reqs) <= 1
    /\ daily.pc = "done" /\ daily.http # NoResponse => Len(daily.reqs) = 1

\* a call answered 500 and a daily flow whose fetch was rejected, each with
\* its one request
C26_Witness ==
    /\ call[1].pc = "responded"
    /\ call[1].http.status = 500
    /\ Len(call[1].reqs) = 1
    /\ daily.pc = "done"
    /\ daily.status = "Error: " \o NetworkErrorMessage
    /\ Len(daily.reqs) = 1

\* ------------------------------------------------- nothing to send
\* what holds of the page script's flow in every state
PageStopsEarly ==
    /\ pg.pc \in {"readRegistry", "awaitResponse", "handled"}
            => Len(pg.folderThreads) > 0
    /\ pg.pc = "returned"
            => /\ pg.call = 0
               /\ ~pg.opened
               /\ \A c \in Calls : call[c].pc = "idle"
    /\ \A c \in Calls :
        /\ call[c].pc # "idle"
            => /\ call[c].sender = "page"
               /\ Len(pg.folderThreads) > 0
               /\ call[c].msg.payload.mailboxId \in {"a1", "b2"}
        /\ call[c].reqs # <<>> => call[c].storage = "read"

\* what holds of the daily digest flow in every state
DailyStopsEarly ==
    /\ daily.status \in {"No thread found.", "No mailbox ID found."}
            => /\ daily.pc = "done"
               /\ daily.reqs = <<>>
               /\ daily.mailboxId = NoId
               /\ daily.token = "unread"
               /\ ~daily.opened
    /\ daily.status = "No thread found." => daily.folderThreads = <<>>
    /\ daily.pc \in {"readRegistry", "readToken", "fetch", "json"}
            => Len(daily.folderThreads) > 0
    /\ daily.mailboxId # NoId => Len(daily.folderThreads) > 0
    /\ daily.token # "unread" => daily.mailboxId # NoId
    /\ daily.reqs # <<>> => daily.token \notin {"unread", "lastError", Undefined, ""}

\* a read of an empty registry ends the flow that made it
EmptyRegistryStops ==
    /\ (pg.pc = "readRegistry" /\ pg' # pg /\ mailboxIds = <<>>)
            => /\ pg'.pc \in {"returned", "rejected"}
               /\ ~pg'.opened
               /\ call' = call
    /\ (daily.pc = "readRegistry" /\ daily' # daily /\ mailboxIds = <<>>)
            => /\ daily'.pc = "done"
               /\ daily'.status \in {"No mailbox ID found.",
                                     "Error: " \o StorageErrorMessage}
               /\ daily'.reqs = <<>>

\* C27: when no thread was extracted or the registry is empty the user action
\* stops before anything is sent: the page script sends no callApi message
\* and opens no window, the daily digest flow makes no request and shows
\* "No thread found." or "No mailbox ID found."; the steps come in the order
\* extraction, registry read, credential read, network call.
C27_NothingSentWithoutThreadOrMailbox ==
    [](PageStopsEarly /\ DailyStopsEarly) /\ [][EmptyRegistryStops]_vars

\* the daily flow found two threads and then an empty registry
C27_Witness ==
    /\ daily.pc = "done"
    /\ daily.status = "No mailbox ID found."
    /\ Len(daily.folderThreads) = 2
    /\ mailboxIds = <<>>
    /\ daily.reqs = <<>>

\* ------------------------------------------- page script's messages
\* C28: every callApi message of the page script passes the orchestrator's
\* validation: its mailboxId, folderId and threadId are not empty, its
\* context is an array whose last element is threadId "@" folderId of the
\* thread it names, and it is never answered {error: "Invalid payload"}.
C28_PageMessagesAreValid ==
    \A c \in Calls :
        call[c].sender = "page"
            => LET payload == call[c].msg.payload
               IN  /\ call[c].msg.action = "callApi"
                   /\ ~Malformed(payload)
                   /\ Len(payload.context.items) >= 1
                   /\ payload.context.items[Len(payload.context.items)]
                        = payload.threadId \o "@" \o payload.folderId
                   /\ \A i \in 1..Len(call[c].resp) :
                        call[c].resp[i] # [error |-> "Invalid payload"]
                   /\ Handled(c) => call[c].pc # "declined"

\* a message of the page script naming the later of two threads was answered
C28_Witness ==
    /\ call[1].sender = "page"
    /\ call[1].pc = "responded"
    /\ call[1].msg.payload.threadId = "9"
    /\ Len(call[1].msg.payload.context.items) = 2
    /\ call[1].http.status = 200

====
